---- MODULE Spec2Model ----
(***************************************************************************)
(* Model of mlem/contrib/scipy.py (the sparse-matrix data codec) and of    *)
(* mlem/cli/main.py (the command decorators _send_analytics, mlem_command, *)
(* config_arg and with_meta).                                              *)
(*                                                                         *)
(* SpecCodec drives the codec: ScipySparseMatrix.process, ScipyWriter.write*)
(* (stepwise, so that the storage handle's lifetime is visible),           *)
(* ScipyReader.read and ScipyReader.read_batch.                            *)
(* SpecCli drives the command decorators.                                  *)
(***************************************************************************)
EXTENDS Integers, Sequences, FiniteSets, TLC

VARIABLES heap, files, owner, readers, wlog, pc, frame, handles, res, cli

vars == <<heap, files, owner, readers, wlog, pc, frame, handles, res, cli>>

codecVars == <<heap, files, owner, readers, wlog, pc, frame, handles, res>>

(***************************************************************************)
(* Bounds of the model.                                                    *)
(***************************************************************************)
\* number of DataType objects that may be allocated (process, copy)
MaxObjs == 3
\* number of write calls that may succeed (each returns a reader)
MaxWrites == 2

(***************************************************************************)
(* Runtime values.  A sparse matrix is a 2 x 2 matrix given by its storage *)
(* format, the name of its dtype and its stored entries <<row, col, val>>. *)
(* An ndarray has a dtype but is no spmatrix; a str has no dtype at all.   *)
(***************************************************************************)
NRows == 2
NCols == 2

NoEntries == {}

None == [kind |-> "None", format |-> "", dtype |-> "", entries |-> NoEntries]

SpMatrix(fmt, dt, es) ==
    [kind |-> "spmatrix", format |-> fmt, dtype |-> dt, entries |-> es]

Matrices ==
    { SpMatrix("csr", "int64", {<<1, 2, 5>>, <<2, 1, 7>>}),
      SpMatrix("csc", "float64", {<<1, 1, 3>>, <<2, 1, 4>>}),
      SpMatrix("coo", "float64", {<<2, 2, 1>>}),
      SpMatrix("lil", "int64", {<<2, 2, 1>>}) }

NdArray == [kind |-> "ndarray", format |-> "", dtype |-> "float64",
            entries |-> {<<1, 1, 3>>}]

Str == [kind |-> "str", format |-> "", dtype |-> "", entries |-> NoEntries]

Values == Matrices \cup {NdArray, Str}

\* scipy.py:23  valid_types: ClassVar = (spmatrix,)
valid_types == {"spmatrix"}

\* isinstance(obj, valid_types)
IsInstance(obj, types) == obj.kind \in types

\* whether obj.dtype.name can be evaluated
HasDtype(obj) == obj.kind \in {"spmatrix", "ndarray"}

(***************************************************************************)
(* scipy.sparse.save_npz / load_npz, as called at scipy.py:44 and :62.     *)
(* save_npz stores the format name, the shape, the data array (which       *)
(* carries the dtype) and the index arrays of the format: indices/indptr   *)
(* for csr and csc, row/col for coo.  Any other format is refused.         *)
(***************************************************************************)
\* the positions of the matrix in row-major and in column-major order
RowMajor == [i \in 1..(NRows * NCols) |->
                <<((i - 1) \div NCols) + 1, ((i - 1) % NCols) + 1>>]

ColMajor == [i \in 1..(NRows * NCols) |->
                <<((i - 1) % NRows) + 1, ((i - 1) \div NRows) + 1>>]

Stored(m, pos) == \E e \in m.entries : e[1] = pos[1] /\ e[2] = pos[2]

ValAt(m, pos) == (CHOOSE e \in m.entries : e[1] = pos[1] /\ e[2] = pos[2])[3]

\* the stored positions, in the given order
StoredIn(m, order) == SelectSeq(order, LAMBDA pos : Stored(m, pos))

\* indptr of a compressed format: indptr[k + 1] counts the stored entries
\* of the major lines 1..k (major = 1: by rows, major = 2: by columns)
IndPtr(m, major, n) ==
    [k \in 1..(n + 1) |-> Cardinality({e \in m.entries : e[major] < k})]

SavableFormats == {"csr", "csc", "coo"}

EmptyFile == [state |-> "absent", format |-> "", shape |-> <<>>, dtype |-> "",
              data |-> <<>>, indices |-> <<>>, indptr |-> <<>>,
              row |-> <<>>, col |-> <<>>]

\* a file left behind by a save that failed part-way
PartialFile == [EmptyFile EXCEPT !.state = "partial"]

save_npz(m) ==
    LET base == [EmptyFile EXCEPT !.state = "npz", !.format = m.format,
                                  !.shape = <<NRows, NCols>>, !.dtype = m.dtype]
    IN  CASE m.format = "csr" ->
               LET ps == StoredIn(m, RowMajor)
               IN  [base EXCEPT
                      !.data = [k \in 1..Len(ps) |-> ValAt(m, ps[k])],
                      !.indices = [k \in 1..Len(ps) |-> ps[k][2]],
                      !.indptr = IndPtr(m, 1, NRows)]
          [] m.format = "csc" ->
               LET ps == StoredIn(m, ColMajor)
               IN  [base EXCEPT
                      !.data = [k \in 1..Len(ps) |-> ValAt(m, ps[k])],
                      !.indices = [k \in 1..Len(ps) |-> ps[k][1]],
                      !.indptr = IndPtr(m, 2, NCols)]
          [] m.format = "coo" ->
               LET ps == StoredIn(m, RowMajor)
               IN  [base EXCEPT
                      !.data = [k \in 1..Len(ps) |-> ValAt(m, ps[k])],
                      !.row = [k \in 1..Len(ps) |-> ps[k][1]],
                      !.col = [k \in 1..Len(ps) |-> ps[k][2]]]

\* the exception save_npz raises, "" when it succeeds
save_npz_error(m) ==
    IF m.kind # "spmatrix" THEN "AttributeError"
    ELSE IF m.format \notin SavableFormats THEN "NotImplementedError"
    ELSE ""

\* the major line (row of csr, column of csc) that holds the k-th stored entry
MajorOf(f, k) ==
    CHOOSE j \in 1..(Len(f.indptr) - 1) : f.indptr[j] < k /\ k <= f.indptr[j + 1]

load_npz(f) ==
    LET es == CASE f.format = "csr" ->
                     {<<MajorOf(f, k), f.indices[k], f.data[k]>> :
                          k \in 1..Len(f.data)}
                [] f.format = "csc" ->
                     {<<f.indices[k], MajorOf(f, k), f.data[k]>> :
                          k \in 1..Len(f.data)}
                [] f.format = "coo" ->
                     {<<f.row[k], f.col[k], f.data[k]>> : k \in 1..Len(f.data)}
    IN  SpMatrix(f.format, f.dtype, es)

\* the exception opening and loading a file raises, "" when it succeeds
load_npz_error(f) ==
    IF f.state = "absent" THEN "FileNotFoundError"
    ELSE IF f.state = "partial" THEN "BadZipFile"
    ELSE ""

(***************************************************************************)
(* The storage and the artifacts.                                          *)
(***************************************************************************)
\* the path write is called with, and a path nothing is ever written to
WritePaths == {"p1"}

Paths == WritePaths \cup {"p2"}

Absent == "absent"

\* DataWriter.art_name, the key ScipyWriter.write stores its artifact under
art_name == "data"

Keys == {art_name, "extra"}

\* an artifact map gives each key the path of its artifact, or Absent
ArtMaps == [Keys -> Paths \cup {Absent}]

KeySet(arts) == {k \in Keys : arts[k] # Absent}

NoArts == [k \in Keys |-> Absent]

BatchSizes == {1, 2}

(***************************************************************************)
(* DataType objects live in a heap: heap[id] is the object with identity   *)
(* id, a ScipySparseMatrix descriptor (dtype) and the value bound to it.   *)
(***************************************************************************)
\* DataType.bind: self.data = data; return self
bind(dt, data) == [dt EXCEPT !.data = data]

\* DataType.copy: the fields of the new object, which are those of dt;
\* the new object gets its own place in the heap where it is created
copy(dt) == [dtype |-> dt.dtype, data |-> dt.data]

\* process with the dtype fixed instead of taken from the value
process_fixed_dtype(obj) ==
    IF HasDtype(obj)
    THEN [status |-> "ok", exc |-> "", dt |-> [dtype |-> "float64", data |-> None]]
    ELSE [status |-> "raised", exc |-> "AttributeError",
          dt |-> [dtype |-> "", data |-> None]]

\* scipy.py:29-31  ScipySparseMatrix.process
process(obj) ==
    IF HasDtype(obj)
    THEN [status |-> "ok", exc |-> "", dt |-> [dtype |-> obj.dtype, data |-> None]]
    ELSE [status |-> "raised", exc |-> "AttributeError",
          dt |-> [dtype |-> "", data |-> None]]

\* the outcome of the last call
Outcome(op, status, exc, obj, reader, arts, ret, opened, openCalls, acquired) ==
    [op |-> op, status |-> status, exc |-> exc, obj |-> obj, reader |-> reader,
     arts |-> arts, ret |-> ret, opened |-> opened, openCalls |-> openCalls,
     acquired |-> acquired]

NoOutcome == Outcome("", "", "", None, 0, NoArts, 0, {}, 0, 0)

NoFrame == [d |-> 0, path |-> "", err |-> "", openCalls |-> 0, acquired |-> 0]

(***************************************************************************)
(* mlem/cli/main.py.  Python values are records V(t, s, c): the type name, *)
(* a string payload and a content (a set of <<key, value>> pairs).         *)
(* A dict of keyword arguments or results is a set of <<name, value>>      *)
(* pairs with distinct names.  An optional string is <<>> (None) or <<s>>. *)
(***************************************************************************)
V(t, s, c) == [t |-> t, s |-> s, c |-> c]

PyNone == V("None", "", {})

PyStr(x) == V("str", x, {})

PyInt(x) == V("int", x, {})

PyDict(items) == V("dict", "", items)

\* bool(v) of the values above
Truthy(v) ==
    CASE v.t = "None" -> FALSE
      [] v.t = "dict" -> v.c # {}
      [] v.t = "str" -> v.s # ""
      [] v.t = "int" -> v.s # "0"
      [] OTHER -> TRUE

Pop(kwargs, name) == {kv \in kwargs : kv[1] # name}

Get(kwargs, name) == (CHOOSE kv \in kwargs : kv[1] = name)[2]

Put(kwargs, name, v) == Pop(kwargs, name) \cup {<<name, v>>}

\* exception classes: those below derive from BaseException only
BaseOnly == {"KeyboardInterrupt", "SystemExit"}

\* isinstance(e, Exception), what `except Exception` catches
IsException(e) == e \notin BaseOnly

\* str(type(e)) of an exception of class e
TypeStr(e) == <<"<class '", e, "'>">>

\* error_msg = None
NoError == <<>>

(***************************************************************************)
(* The outcome of a call: whether it returned or raised, what, the keyword *)
(* arguments of every call of the wrapped function f, the reports sent by  *)
(* send_cli_call, the files opened with open(), the calls of               *)
(* build_mlem_object, and the order of these events.                       *)
(***************************************************************************)
CallOut(status, value, exc, fcalls, sends, opens, builds, events) ==
    [status |-> status, value |-> value, exc |-> exc, fcalls |-> fcalls,
     sends |-> sends, opens |-> opens, builds |-> builds, events |-> events]

Returned(value, fcalls, sends, opens, builds, events) ==
    CallOut("returned", value, "", fcalls, sends, opens, builds, events)

Raised(exc, fcalls, sends, opens, builds, events) ==
    CallOut("raised", PyNone, exc, fcalls, sends, opens, builds, events)

\* a wrapped function either returns a value or raises an exception
FReturn(v) == [kind |-> "return", value |-> v, exc |-> ""]

FRaise(e) == [kind |-> "raise", value |-> PyNone, exc |-> e]

\* the call of f with the keyword arguments kwargs
CallF(f, kwargs) ==
    IF f.kind = "return"
    THEN Returned(f.value, <<kwargs>>, <<>>, <<>>, <<>>, <<"f">>)
    ELSE Raised(f.exc, <<kwargs>>, <<>>, <<>>, <<>>, <<"f">>)

FBehaviours ==
    { FReturn(PyNone),
      FReturn(PyDict({})),
      FReturn(PyDict({<<"size", PyInt("3")>>})),
      FReturn(PyDict({<<"size", PyInt("3")>>, <<"kind", PyStr("model")>>})),
      FReturn(PyInt("5")),
      FRaise("ValueError"),
      FRaise("KeyboardInterrupt") }

(***************************************************************************)
(* main.py:46-63  _send_analytics(cmd_name)(f), given the outcome fout of  *)
(* the call of f made at line 53.                                          *)
(***************************************************************************)
\* line 54: {f"cmd_{cmd_name}_{k}": v for k, v in res.items()}
Prefixed(cmd_name, items) ==
    {<<<<"cmd_", cmd_name, "_", kv[1]>>, kv[2]>> : kv \in items}

\* line 59: send_cli_call(cmd_name, error_msg=error, and the items of res)
Report(cmd_name, error, fields) ==
    [cmd_name |-> cmd_name, error_msg |-> error, fields |-> fields]

\* inner without the finally clause: the report is sent on success only
send_analytics_inner_on_success(cmd_name, fout) ==
    IF fout.status = "returned"
    THEN LET result == IF Truthy(fout.value) THEN fout.value ELSE PyDict({})
         IN  IF result.t = "dict"
             THEN Returned(PyNone, fout.fcalls,
                           fout.sends \o <<Report(cmd_name, NoError,
                                                  Prefixed(cmd_name, result.c))>>,
                           fout.opens, fout.builds,
                           fout.events \o <<"send_cli_call">>)
             ELSE Raised("TypeError", fout.fcalls, fout.sends, fout.opens,
                         fout.builds, fout.events)
    ELSE Raised(fout.exc, fout.fcalls, fout.sends, fout.opens, fout.builds,
                fout.events)

send_analytics_inner(cmd_name, fout) ==
    IF fout.status = "returned"
    THEN \* line 53: res = f(...) or {}
         LET result == IF Truthy(fout.value) THEN fout.value ELSE PyDict({})
         IN  IF result.t = "dict"
             THEN \* lines 54, 59; inner itself returns nothing
                  Returned(PyNone, fout.fcalls,
                           fout.sends \o <<Report(cmd_name, NoError,
                                                  Prefixed(cmd_name, result.c))>>,
                           fout.opens, fout.builds,
                           fout.events \o <<"send_cli_call">>)
             ELSE \* res.items() raises AttributeError inside the try; in the
                  \* finally clause res is no mapping: TypeError is raised
                  \* before send_cli_call is entered
                  Raised("TypeError", fout.fcalls, fout.sends, fout.opens,
                         fout.builds, fout.events)
    ELSE \* lines 55-59: error is set by `except Exception` only
         LET error == IF IsException(fout.exc) THEN TypeStr(fout.exc) ELSE NoError
         IN  Raised(fout.exc, fout.fcalls,
                    fout.sends \o <<Report(cmd_name, error, {})>>,
                    fout.opens, fout.builds,
                    fout.events \o <<"send_cli_call">>)

\* main.py:66-77  mlem_command: the command name given to _send_analytics;
\* args are the positional arguments, name is <<>> or <<the name kwarg>>
mlem_command_name(args, name, f_name) ==
    IF Len(args) > 0 THEN args[1]
    ELSE IF name # <<>> THEN name[1] ELSE f_name

(***************************************************************************)
(* main.py:138-161  with_meta                                              *)
(***************************************************************************)
\* the class hierarchy of the metadata objects
Bases == [MlemMeta |-> {"MlemMeta"},
          ModelMeta |-> {"ModelMeta", "MlemMeta"},
          DatasetMeta |-> {"DatasetMeta", "MlemMeta"}]

MetaClasses == DOMAIN Bases

\* isinstance(meta, cls)
isinstance(meta, cls) == cls \in Bases[meta.t]

\* force_cls = None
NoCls == ""

\* the metadata objects of the repository, by path
MetaStore == [model |-> "ModelMeta", data |-> "DatasetMeta"]

MetaPaths == {"model", "data", "nowhere"}

Revs == {PyNone, PyStr("v1")}

\* mlem.core.metadata.load_meta(path, repo=repo, rev=rev)
load_meta(path, repo, rev) ==
    IF path.s \in DOMAIN MetaStore
    THEN [status |-> "ok", exc |-> "",
          meta |-> V(MetaStore[path.s], path.s, {<<"rev", rev>>})]
    ELSE [status |-> "raised", exc |-> "MlemObjectNotFound", meta |-> PyNone]

\* the declarations of option_repo (lines 80-82) and option_rev (line 83)
option_repo == <<[dashes |-> "-", name |-> "r"], [dashes |-> "--", name |-> "repo"]>>

option_rev == <<[dashes |-> "--", name |-> "rev"]>>

\* main.py:133-135  _get_option_name: option_decls[-1].lstrip("-")
get_option_name(option) == option[Len(option)].name

\* inner with the type test type(meta) is force_cls instead of isinstance
with_meta_inner_exact_type(argument_name, force_cls, f, kwargs) ==
    LET path == Get(kwargs, argument_name)
        k1 == Pop(kwargs, argument_name)
        repo == Get(k1, get_option_name(option_repo))
        k2 == Pop(k1, get_option_name(option_repo))
        rev == Get(k2, get_option_name(option_rev))
        k3 == Pop(k2, get_option_name(option_rev))
        got == load_meta(path, repo, rev)
    IN  IF got.status # "ok"
        THEN Raised(got.exc, <<>>, <<>>, <<>>, <<>>, <<"load_meta">>)
        ELSE IF force_cls # NoCls /\ got.meta.t # force_cls
        THEN Raised("WrongMetaType", <<>>, <<>>, <<>>, <<>>, <<"load_meta">>)
        ELSE LET fout == CallF(f, Put(k3, argument_name, got.meta))
             IN  [fout EXCEPT !.events = <<"load_meta">> \o @]

\* main.py:149-157  inner of with_meta(argument_name, force_cls=force_cls)(f)
with_meta_inner(argument_name, force_cls, f, kwargs) ==
    LET path == Get(kwargs, argument_name)
        k1 == Pop(kwargs, argument_name)
        repo == Get(k1, get_option_name(option_repo))
        k2 == Pop(k1, get_option_name(option_repo))
        rev == Get(k2, get_option_name(option_rev))
        k3 == Pop(k2, get_option_name(option_rev))
        got == load_meta(path, repo, rev)
    IN  IF got.status # "ok"
        THEN Raised(got.exc, <<>>, <<>>, <<>>, <<>>, <<"load_meta">>)
        ELSE IF force_cls # NoCls /\ ~isinstance(got.meta, force_cls)
        THEN Raised("WrongMetaType", <<>>, <<>>, <<>>, <<>>, <<"load_meta">>)
        ELSE LET fout == CallF(f, Put(k3, argument_name, got.meta))
             IN  [fout EXCEPT !.events = <<"load_meta">> \o @]

(***************************************************************************)
(* main.py:104-130  config_arg                                             *)
(***************************************************************************)
\* the text files open() can read, by path: each a sequence of
\* <<key, value>> lines of a mapping; any other path does not exist
FileText ==
    [dep |-> << <<"type", "heroku">>, <<"app", "web">> >>,
     bad |-> << <<"app", "web">> >>]

\* yaml.safe_load of a text: the mapping it denotes
safe_load(text) == {text[i] : i \in DOMAIN text}

\* the subtypes registered for each model
Subtypes == [Deployment |-> {"heroku", "docker"}]

HasKey(doc, k) == \E kv \in doc : kv[1] = k

ValueOf(doc, k) == (CHOOSE kv \in doc : kv[1] = k)[2]

\* pydantic.parse_obj_as(model, doc): the document validated against model
parse_obj_as(model, doc) ==
    IF HasKey(doc, "type") /\ ValueOf(doc, "type") \in Subtypes[model]
    THEN [status |-> "ok", exc |-> "",
          obj |-> V(model, ValueOf(doc, "type"), doc)]
    ELSE [status |-> "raised", exc |-> "ValidationError", obj |-> PyNone]

\* mlem.core.base.build_mlem_object(model, subtype, conf, file_conf): the
\* subtype is resolved, the conf entries and the parsed files of the
\* file_conf entries are merged and the result is validated
build_mlem_object(model, subtype, conf, file_conf) ==
    LET flat == {conf[i] : i \in DOMAIN conf}
        missing == \E i \in DOMAIN file_conf : file_conf[i][2] \notin DOMAIN FileText
        spliced == UNION {safe_load(FileText[file_conf[i][2]]) :
                             i \in {j \in DOMAIN file_conf :
                                      file_conf[j][2] \in DOMAIN FileText}}
    IN  IF subtype \notin Subtypes[model] \/ missing
        THEN [status |-> "raised", exc |-> "ConfigError", obj |-> PyNone]
        ELSE [status |-> "ok", exc |-> "",
              obj |-> V(model, subtype,
                        {<<"type", subtype>>} \cup flat \cup
                        {kv \in spliced : kv[1] # "type"})]

\* inner with `if load:` for `if load is not None:`
config_arg_inner_truthy(name, model, f, load, subtype, conf, file_conf, inner_kwargs) ==
    IF load # <<>> /\ load # <<"">>
    THEN IF load[1] \notin DOMAIN FileText
         THEN Raised("FileNotFoundError", <<>>, <<>>, <<load[1]>>, <<>>, <<"open">>)
         ELSE LET got == parse_obj_as(model, safe_load(FileText[load[1]]))
              IN  IF got.status # "ok"
                  THEN Raised(got.exc, <<>>, <<>>, <<load[1]>>, <<>>, <<"open">>)
                  ELSE LET fout == CallF(f, Put(inner_kwargs, name, got.obj))
                       IN  [fout EXCEPT !.opens = <<load[1]>>,
                                        !.events = <<"open">> \o @]
    ELSE LET call == [model |-> model, subtype |-> subtype, conf |-> conf,
                      file_conf |-> file_conf]
             got == build_mlem_object(model, subtype, conf, file_conf)
         IN  IF got.status # "ok"
             THEN Raised(got.exc, <<>>, <<>>, <<>>, <<call>>, <<"build_mlem_object">>)
             ELSE LET fout == CallF(f, Put(inner_kwargs, name, got.obj))
                  IN  [fout EXCEPT !.builds = <<call>>,
                                   !.events = <<"build_mlem_object">> \o @]

\* main.py:113-126  inner of config_arg(name, model)(f)
config_arg_inner(name, model, f, load, subtype, conf, file_conf, inner_kwargs) ==
    IF load # <<>>
    THEN \* lines 121-122
         IF load[1] \notin DOMAIN FileText
         THEN Raised("FileNotFoundError", <<>>, <<>>, <<load[1]>>, <<>>, <<"open">>)
         ELSE LET got == parse_obj_as(model, safe_load(FileText[load[1]]))
              IN  IF got.status # "ok"
                  THEN Raised(got.exc, <<>>, <<>>, <<load[1]>>, <<>>, <<"open">>)
                  ELSE LET fout == CallF(f, Put(inner_kwargs, name, got.obj))
                       IN  [fout EXCEPT !.opens = <<load[1]>>,
                                        !.events = <<"open">> \o @]
    ELSE \* line 124
         LET call == [model |-> model, subtype |-> subtype, conf |-> conf,
                      file_conf |-> file_conf]
             got == build_mlem_object(model, subtype, conf, file_conf)
         IN  IF got.status # "ok"
             THEN Raised(got.exc, <<>>, <<>>, <<>>, <<call>>, <<"build_mlem_object">>)
             ELSE LET fout == CallF(f, Put(inner_kwargs, name, got.obj))
                  IN  [fout EXCEPT !.builds = <<call>>,
                                   !.events = <<"build_mlem_object">> \o @]

(***************************************************************************)
(* The state.  heap, files, readers, pc, frame and handles are the state   *)
(* of the codec and its storage; owner and wlog record, for the claims,    *)
(* which write last changed a file and what each successful write was      *)
(* given; res is the outcome of the last codec call and cli the last       *)
(* command invocation.                                                     *)
(***************************************************************************)
NoOut == Returned(PyNone, <<>>, <<>>, <<>>, <<>>, <<>>)

Invocation(op, in, wrapped, out) ==
    [op |-> op, in |-> in, wrapped |-> wrapped, out |-> out]

NoInvocation == Invocation("", [none |-> TRUE], NoOut, NoOut)

Init ==
    /\ heap = <<>>
    /\ files = [p \in Paths |-> EmptyFile]
    /\ owner = [p \in Paths |-> 0]
    /\ readers = <<>>
    /\ wlog = <<>>
    /\ pc = "idle"
    /\ frame = NoFrame
    /\ handles = {}
    /\ res = NoOutcome
    /\ cli = NoInvocation

\* a caller processes a value and binds it to the descriptor it gets
Process(obj) ==
    /\ pc = "idle"
    /\ Len(heap) < MaxObjs
    /\ LET out == process(obj)
       IN  /\ heap' = IF out.status = "ok"
                      THEN Append(heap, bind(out.dt, obj))
                      ELSE heap
           /\ res' = Outcome("process", out.status, out.exc, obj, 0, NoArts,
                             IF out.status = "ok" THEN Len(heap) + 1 ELSE 0,
                             {}, 0, 0)
    /\ pc' = "returned"
    /\ UNCHANGED <<files, owner, readers, wlog, frame, handles, cli>>

(***************************************************************************)
(* scipy.py:40-45  ScipyWriter.write, step by step:                        *)
(*   write_open  line 43, storage.open(path) and entering the with block   *)
(*   write_save  line 44, sparse.save_npz(f, data.data)                    *)
(*   write_exit  leaving the with block (the handle is released on every   *)
(*               path), then line 45 or the propagation of the exception   *)
(***************************************************************************)
write_open(d, path) ==
    /\ pc = "idle"
    /\ Len(readers) < MaxWrites
    /\ d \in DOMAIN heap
    /\ \/ /\ handles' = handles \cup {path}
          /\ pc' = "saving"
          /\ frame' = [d |-> d, path |-> path, err |-> "", openCalls |-> 1,
                       acquired |-> 1]
          /\ res' = Outcome("write", "running", "", None, 0, NoArts, 0, {}, 1, 1)
       \/ /\ res' = Outcome("write", "raised", "PermissionError", None, 0, NoArts,
                            0, {}, 1, 0)
          /\ pc' = "returned"
          /\ UNCHANGED <<handles, frame>>
    /\ UNCHANGED <<heap, files, owner, readers, wlog, cli>>

write_save ==
    /\ pc = "saving"
    /\ LET data == heap[frame.d].data
           bad == save_npz_error(data)
       IN  \/ /\ bad = ""
              /\ files' = [files EXCEPT ![frame.path] = save_npz(data)]
              /\ owner' = [owner EXCEPT ![frame.path] = Len(readers) + 1]
              /\ frame' = frame
           \/ /\ \E e \in (IF bad = "" THEN {"OSError"} ELSE {bad}) :
                    frame' = [frame EXCEPT !.err = e]
              /\ \/ UNCHANGED <<files, owner>>
                 \/ /\ files' = [files EXCEPT ![frame.path] = PartialFile]
                    /\ owner' = [owner EXCEPT ![frame.path] = 0]
    /\ pc' = "exiting"
    /\ UNCHANGED <<heap, readers, wlog, handles, res, cli>>

\* write without the with block: the handle is closed on the success path only
write_exit_leak ==
    /\ pc = "exiting"
    /\ handles' = IF frame.err = "" THEN handles \ {frame.path} ELSE handles
    /\ pc' = "returned"
    /\ frame' = NoFrame
    /\ IF frame.err = ""
       THEN /\ readers' = Append(readers, [data_type |-> frame.d])
            /\ wlog' = Append(wlog, [v |-> heap[frame.d].data, dt |-> heap[frame.d],
                                     path |-> frame.path])
            /\ res' = Outcome("write", "ok", "", heap[frame.d].data,
                              Len(readers) + 1,
                              [NoArts EXCEPT ![art_name] = frame.path], 0, {},
                              frame.openCalls, frame.acquired)
       ELSE /\ res' = Outcome("write", "raised", frame.err, None, 0,
                              NoArts, 0, {}, frame.openCalls, frame.acquired)
            /\ UNCHANGED <<readers, wlog>>
    /\ UNCHANGED <<heap, files, owner, cli>>

write_exit ==
    /\ pc = "exiting"
    /\ handles' = handles \ {frame.path}
    /\ pc' = "returned"
    /\ frame' = NoFrame
    /\ IF frame.err = ""
       THEN /\ readers' = Append(readers, [data_type |-> frame.d])
            /\ wlog' = Append(wlog, [v |-> heap[frame.d].data, dt |-> heap[frame.d],
                                     path |-> frame.path])
            /\ res' = Outcome("write", "ok", "", heap[frame.d].data,
                              Len(readers) + 1,
                              [NoArts EXCEPT ![art_name] = frame.path], 0, {},
                              frame.openCalls, frame.acquired)
       ELSE /\ res' = Outcome("write", "raised", frame.err, None, 0,
                              NoArts, 0, {}, frame.openCalls, frame.acquired)
            /\ UNCHANGED <<readers, wlog>>
    /\ UNCHANGED <<heap, files, owner, cli>>

\* read_batch that falls back to a plain read of the whole artifact
read_batch_whole(r, arts, batch_size) ==
    /\ pc = "idle"
    /\ r \in DOMAIN readers
    /\ IF arts[art_name] = Absent \/ load_npz_error(files[arts[art_name]]) # ""
       THEN /\ res' = Outcome("read_batch", "raised", "NotImplementedError", None, r,
                              NoArts, 0, {}, 0, 0)
            /\ heap' = heap
       ELSE /\ Len(heap) < MaxObjs
            /\ heap' = Append(heap, bind(copy(heap[readers[r].data_type]),
                                         load_npz(files[arts[art_name]])))
            /\ res' = Outcome("read_batch", "ok", "", None, r, NoArts,
                              Len(heap) + 1, {art_name}, 0, 0)
    /\ pc' = "returned"
    /\ UNCHANGED <<files, owner, readers, wlog, frame, handles, cli>>

\* scipy.py:51-54  ScipyReader.read_batch
read_batch(r, arts, batch_size) ==
    /\ pc = "idle"
    /\ r \in DOMAIN readers
    /\ res' = Outcome("read_batch", "raised", "NotImplementedError", None, r, NoArts,
                      0, {}, 0, 0)
    /\ pc' = "returned"
    /\ UNCHANGED <<heap, files, owner, readers, wlog, frame, handles, cli>>

\* read that binds the loaded value to the stored descriptor itself, no copy
read_nocopy(r, arts) ==
    /\ pc = "idle"
    /\ r \in DOMAIN readers
    /\ IF arts[art_name] = Absent
       THEN /\ res' = Outcome("read", "raised", "ValueError", None, r, arts, 0,
                              {}, 0, 0)
            /\ heap' = heap
       ELSE LET f == files[arts[art_name]]
                bad == load_npz_error(f)
            IN  IF bad # ""
                THEN /\ res' = Outcome("read", "raised", bad, None, r, arts, 0,
                                       {art_name}, 0, 0)
                     /\ heap' = heap
                ELSE /\ heap' = [heap EXCEPT ![readers[r].data_type] =
                                                bind(@, load_npz(f))]
                     /\ res' = Outcome("read", "ok", "", load_npz(f), r, arts,
                                       readers[r].data_type, {art_name}, 0, 0)
    /\ pc' = "returned"
    /\ UNCHANGED <<files, owner, readers, wlog, frame, handles, cli>>

\* read that, when the declared key is missing, tries whatever artifact there is
read_best_effort(r, arts) ==
    /\ pc = "idle"
    /\ r \in DOMAIN readers
    /\ LET ks == IF arts[art_name] # Absent THEN {art_name} ELSE KeySet(arts)
       IN  IF ks = {}
           THEN /\ res' = Outcome("read", "raised", "ValueError", None, r, arts, 0,
                                  {}, 0, 0)
                /\ heap' = heap
           ELSE LET k == CHOOSE k \in ks : TRUE
                    f == files[arts[k]]
                    bad == load_npz_error(f)
                IN  IF bad # ""
                    THEN /\ res' = Outcome("read", "raised", bad, None, r, arts, 0,
                                           {k}, 0, 0)
                         /\ heap' = heap
                    ELSE /\ Len(heap) < MaxObjs
                         /\ heap' = Append(heap,
                                bind(copy(heap[readers[r].data_type]), load_npz(f)))
                         /\ res' = Outcome("read", "ok", "", load_npz(f), r, arts,
                                           Len(heap) + 1, {k}, 0, 0)
    /\ pc' = "returned"
    /\ UNCHANGED <<files, owner, readers, wlog, frame, handles, cli>>

\* scipy.py:56-63  ScipyReader.read
read(r, arts) ==
    /\ pc = "idle"
    /\ r \in DOMAIN readers
    /\ IF arts[art_name] = Absent
       THEN /\ res' = Outcome("read", "raised", "ValueError", None, r, arts, 0,
                              {}, 0, 0)
            /\ heap' = heap
       ELSE LET f == files[arts[art_name]]
                bad == load_npz_error(f)
            IN  IF bad # ""
                THEN /\ res' = Outcome("read", "raised", bad, None, r, arts, 0,
                                       {art_name}, 0, 0)
                     /\ heap' = heap
                ELSE /\ Len(heap) < MaxObjs
                     /\ heap' = Append(heap,
                                  bind(copy(heap[readers[r].data_type]), load_npz(f)))
                     /\ res' = Outcome("read", "ok", "", load_npz(f), r, arts,
                                       Len(heap) + 1, {art_name}, 0, 0)
    /\ pc' = "returned"
    /\ UNCHANGED <<files, owner, readers, wlog, frame, handles, cli>>

\* the caller takes the outcome of the call and goes on
Continue ==
    /\ pc = "returned"
    /\ pc' = "idle"
    /\ res' = NoOutcome
    /\ UNCHANGED <<heap, files, owner, readers, wlog, frame, handles, cli>>

NextCodec ==
    \/ \E obj \in Values : Process(obj)
    \/ \E d \in 1..MaxObjs, path \in WritePaths : write_open(d, path)
    \/ write_save
    \/ write_exit
    \/ \E r \in 1..MaxWrites, arts \in ArtMaps : read(r, arts)
    \/ \E r \in 1..MaxWrites, arts \in ArtMaps, n \in BatchSizes :
          read_batch(r, arts, n)
    \/ Continue

SpecCodec == Init /\ [][NextCodec]_vars

(***************************************************************************)
(* The commands that are invoked.  cli holds the last invocation: its      *)
(* inputs, the outcome of the function the decorator wraps (for a command  *)
(* under _send_analytics) and the outcome of the invocation.               *)
(***************************************************************************)
\* the keyword arguments click passes to the inner function of with_meta
MetaKwargs(argument_name, path, rev) ==
    {<<argument_name, PyStr(path)>>, <<"repo", PyNone>>,
     <<"rev", rev>>, <<"link", PyStr("no")>>}

ForceClasses == MetaClasses \cup {NoCls}

CmdArgs == {<<>>, <<"apply">>}

CmdNames == {<<>>, <<"run">>}

idle == pc = "idle" /\ UNCHANGED codecVars

\* a function wrapped by with_meta is invoked
WithMeta(path, rev, force_cls, f) ==
    /\ idle
    /\ LET kwargs == MetaKwargs("model", path, rev)
       IN  cli' = Invocation("with_meta",
                     [argument_name |-> "model", force_cls |-> force_cls, f |-> f,
                      kwargs |-> kwargs],
                     NoOut,
                     with_meta_inner("model", force_cls, f, kwargs))

\* a function wrapped by config_arg is invoked
ConfigArg(load, subtype, conf, file_conf, f) ==
    /\ idle
    /\ LET kwargs == {<<"link", PyStr("no")>>}
       IN  cli' = Invocation("config_arg",
                     [name |-> "deploy", model |-> "Deployment", f |-> f,
                      load |-> load, subtype |-> subtype, conf |-> conf,
                      file_conf |-> file_conf, kwargs |-> kwargs],
                     NoOut,
                     config_arg_inner("deploy", "Deployment", f, load, subtype,
                                      conf, file_conf, kwargs))

\* a command declared with mlem_command around a plain function f is invoked
Command(args, name, f) ==
    /\ idle
    /\ LET cmd_name == mlem_command_name(args, name, "f_name")
           fout == CallF(f, {<<"link", PyStr("no")>>})
       IN  cli' = Invocation("command",
                     [args |-> args, name |-> name, f_name |-> "f_name", f |-> f],
                     fout,
                     send_analytics_inner(cmd_name, fout))

\* a command declared with mlem_command around with_meta(...)(f) is invoked
CommandWithMeta(args, name, path, force_cls, f) ==
    /\ idle
    /\ LET cmd_name == mlem_command_name(args, name, "f_name")
           kwargs == MetaKwargs("model", path, PyNone)
           fout == with_meta_inner("model", force_cls, f, kwargs)
       IN  cli' = Invocation("command",
                     [args |-> args, name |-> name, f_name |-> "f_name", f |-> f,
                      path |-> path, force_cls |-> force_cls],
                     fout,
                     send_analytics_inner(cmd_name, fout))

Loads == {<<>>, <<"">>, <<"dep">>, <<"bad">>, <<"missing">>}

SubtypeArgs == {"", "heroku", "bogus"}

Confs == {<<>>, << <<"app", "api">> >>}

FileConfs == {<<>>, << <<"env", "dep">> >>, << <<"env", "missing">> >>}

NextCli ==
    \/ \E path \in MetaPaths, rev \in Revs, c \in ForceClasses, f \in FBehaviours :
          WithMeta(path, rev, c, f)
    \/ \E load \in Loads, subtype \in SubtypeArgs, conf \in Confs,
          file_conf \in FileConfs, f \in FBehaviours :
          ConfigArg(load, subtype, conf, file_conf, f)
    \/ \E args \in CmdArgs, name \in CmdNames, f \in FBehaviours :
          Command(args, name, f)
    \/ \E args \in CmdArgs, name \in CmdNames, path \in MetaPaths,
          c \in ForceClasses, f \in FBehaviours :
          CommandWithMeta(args, name, path, c, f)

SpecCli == Init /\ [][NextCli]_vars

(***************************************************************************)
(* Claims about the codec, checked under SpecCodec.                        *)
(***************************************************************************)
\* the artifact map write returned together with reader r
ReturnedArts(r) == [NoArts EXCEPT ![art_name] = wlog[r].path]

\* the data type that write number r was given is process(v) bound to v
BoundToProcessed(r) ==
    /\ process(wlog[r].v).status = "ok"
    /\ wlog[r].dt = bind(process(wlog[r].v).dt, wlog[r].v)

C2_MissingKeyFailsBeforeOpen ==
    (res.op = "read" /\ res.arts[art_name] = Absent)
    => /\ res.status = "raised"
       /\ res.exc = "ValueError"
       /\ res.opened = {}
       /\ res.ret = 0

\* the key is missing while another key names a file that could be loaded
C2_Witness ==
    /\ res.op = "read"
    /\ res.arts[art_name] = Absent
    /\ res.arts["extra"] \in Paths
    /\ files[res.arts["extra"]].state = "npz"
    /\ res.exc = "ValueError"

\* C3: read raises ValueError for every artifact map whose key set is not
\* exactly {art_name}, maps with additional keys included.
C3_ExactKeySetRequired ==
    (res.op = "read" /\ KeySet(res.arts) # {art_name})
    => (res.status = "raised" /\ res.exc = "ValueError")

\* C6: write calls storage.open once, holds at most the one handle it got
\* from it, and no handle is open once write has returned or raised.
C6_ScopedHandle ==
    /\ Cardinality(handles) <= 1
    /\ pc \in {"idle", "returned"} => handles = {}
    /\ (res.op = "write" /\ pc = "returned")
       => /\ res.openCalls = 1
          /\ res.acquired <= 1
          /\ res.exc # "PermissionError" => res.acquired = 1

\* write has raised out of save_npz, after it had acquired its handle
C6_Witness ==
    /\ res.op = "write"
    /\ pc = "returned"
    /\ res.status = "raised"
    /\ res.exc \in {"NotImplementedError", "OSError", "AttributeError"}
    /\ res.acquired = 1
    /\ handles = {}

\* C7: a successful read changes no existing DataType object, the reader's
\* own data_type in particular, and returns a newly created object.
C7_ReadBindsCopy ==
    [][(pc = "idle" /\ res'.op = "read" /\ res'.status = "ok")
       => /\ \A i \in DOMAIN heap : heap'[i] = heap[i]
          /\ readers' = readers
          /\ res'.ret \notin DOMAIN heap
          /\ res'.ret \in DOMAIN heap'
          /\ res'.ret # readers[res'.reader].data_type]_vars

\* a read has loaded a value that differs from the one its reader's
\* data_type is bound to, and that data_type is as it was when write
\* returned the reader
C7_Witness ==
    /\ res.op = "read"
    /\ res.status = "ok"
    /\ heap[res.ret].data # heap[readers[res.reader].data_type].data
    /\ heap[readers[res.reader].data_type] = wlog[res.reader].dt

\* C8: process raises for every value that is no instance of valid_types.
C8_ProcessRejectsInvalid ==
    (res.op = "process" /\ ~IsInstance(res.obj, valid_types))
    => res.status = "raised"

\* C9: read_batch raises NotImplementedError, opens no artifact and
\* produces no data type.
C9_ReadBatchUnsupported ==
    res.op = "read_batch"
    => /\ res.status = "raised"
       /\ res.exc = "NotImplementedError"
       /\ res.opened = {}
       /\ res.ret = 0

\* read_batch was called while a loadable file was there to read
C9_Witness ==
    /\ res.op = "read_batch"
    /\ \E p \in Paths : files[p].state = "npz"

(***************************************************************************)
(* Claims about the command decorators, checked under SpecCli.             *)
(***************************************************************************)
\* the metadata object at the path of the last with_meta invocation
LoadedMeta ==
    V(MetaStore[Get(cli.in.kwargs, cli.in.argument_name).s],
      Get(cli.in.kwargs, cli.in.argument_name).s,
      {<<"rev", Get(cli.in.kwargs, "rev")>>})

\* C4: when the object load_meta returns is no instance of force_cls, the
\* call raises WrongMetaType and the wrapped function is not invoked; when
\* it is one, or force_cls is None, the wrapped function is invoked exactly
\* once, with the loaded object under argument_name.
C4_WithMetaTypeConstraint ==
    (/\ cli.op = "with_meta"
     /\ Get(cli.in.kwargs, cli.in.argument_name).s \in DOMAIN MetaStore)
    => LET meta == LoadedMeta
           fits == \/ cli.in.force_cls = NoCls
                   \/ cli.in.force_cls \in Bases[meta.t]
       IN  /\ ~fits => /\ cli.out.status = "raised"
                       /\ cli.out.exc = "WrongMetaType"
                       /\ cli.out.fcalls = <<>>
           /\ fits => /\ Len(cli.out.fcalls) = 1
                      /\ Get(cli.out.fcalls[1], cli.in.argument_name) = meta
                      /\ cli.out.exc # "WrongMetaType"

\* a ModelMeta was loaded under force_cls = MlemMeta, a base class of its
\* class, and the wrapped function was invoked with it
C4_Witness ==
    /\ cli.op = "with_meta"
    /\ cli.in.force_cls = "MlemMeta"
    /\ Len(cli.out.fcalls) = 1
    /\ Get(cli.out.fcalls[1], "model").t = "ModelMeta"

\* C5: with a load path the object given to the wrapped command is the
\* parsed and validated content of that file, whatever subtype, conf and
\* file_conf are, and build_mlem_object is not called; without one the
\* object is the result of build_mlem_object(model, subtype, conf,
\* file_conf) and config_arg opens no file.
C5_ConfigArgLoadPath ==
    cli.op = "config_arg"
    => LET in == cli.in
           out == cli.out
       IN  /\ in.load # <<>>
              => /\ out.builds = <<>>
                 /\ out.opens = <<in.load[1]>>
                 /\ out.fcalls # <<>>
                    => /\ Len(out.fcalls) = 1
                       /\ in.load[1] \in DOMAIN FileText
                       /\ Get(out.fcalls[1], in.name) =
                            V(in.model,
                              ValueOf(safe_load(FileText[in.load[1]]), "type"),
                              safe_load(FileText[in.load[1]]))
           /\ in.load = <<>>
              => /\ out.opens = <<>>
                 /\ out.builds = <<[model |-> in.model, subtype |-> in.subtype,
                                    conf |-> in.conf, file_conf |-> in.file_conf]>>
                 /\ out.fcalls # <<>>
                    => /\ Len(out.fcalls) = 1
                       /\ Get(out.fcalls[1], in.name) =
                            build_mlem_object(in.model, in.subtype, in.conf,
                                              in.file_conf).obj

\* an object was loaded from a file although a subtype, a conf entry and a
\* file_conf entry were given as well
C5_Witness ==
    /\ cli.op = "config_arg"
    /\ cli.in.load = <<"dep">>
    /\ cli.in.subtype = "bogus"
    /\ cli.in.conf # <<>>
    /\ cli.in.file_conf # <<>>
    /\ Len(cli.out.fcalls) = 1
    /\ Get(cli.out.fcalls[1], "deploy").s = "heroku"

\* the command name the last command invocation reports under
CmdName == mlem_command_name(cli.in.args, cli.in.name, cli.in.f_name)

\* the report of the last command invocation, when there is exactly one
SentOnce(error, fields) ==
    /\ cli.out.sends = <<Report(CmdName, error, fields)>>
    /\ cli.out.events = cli.wrapped.events \o <<"send_cli_call">>

\* the wrapped function returned a true value that is no mapping
ReturnedNonMapping ==
    /\ cli.wrapped.status = "returned"
    /\ Truthy(cli.wrapped.value)
    /\ cli.wrapped.value.t # "dict"

\* the result keys of the wrapped function, each as cmd_<cmd_name>_<key>
CmdFields ==
    IF cli.wrapped.value.t = "dict"
    THEN {<<<<"cmd_", CmdName, "_", kv[1]>>, kv[2]>> : kv \in cli.wrapped.value.c}
    ELSE {}

\* C10 as stated, for a wrapped function that raises or returns None or a
\* dict: send_cli_call is called exactly once, after the wrapped function
\* has finished; when it raised, error_msg is the string of the exception's
\* type, there are no cmd_ fields and the exception propagates; when it
\* returned, error_msg is None and every result key k is reported as
\* cmd_<cmd_name>_k.
C10_Original ==
    (cli.op = "command" /\ ~ReturnedNonMapping)
    => /\ cli.wrapped.status = "raised"
          => /\ SentOnce(TypeStr(cli.wrapped.exc), {})
             /\ cli.out.status = "raised"
             /\ cli.out.exc = cli.wrapped.exc
       /\ cli.wrapped.status = "returned"
          => SentOnce(NoError, CmdFields)

\* C10 as amended: the above holds when the wrapped function raised an
\* instance of Exception or returned None, another false value or a dict.
\* When it raised an exception that is no instance of Exception, the one
\* report carries error_msg None and no cmd_ fields, and the exception
\* propagates.  When it returned a true value that is no mapping,
\* send_cli_call is not called and TypeError propagates.
C10_Analytics ==
    cli.op = "command"
    => /\ (cli.wrapped.status = "raised" /\ IsException(cli.wrapped.exc))
          => /\ SentOnce(TypeStr(cli.wrapped.exc), {})
             /\ cli.out.status = "raised"
             /\ cli.out.exc = cli.wrapped.exc
       /\ (cli.wrapped.status = "raised" /\ ~IsException(cli.wrapped.exc))
          => /\ SentOnce(NoError, {})
             /\ cli.out.status = "raised"
             /\ cli.out.exc = cli.wrapped.exc
       /\ (cli.wrapped.status = "returned" /\ ~ReturnedNonMapping)
          => /\ SentOnce(NoError, CmdFields)
             /\ cli.out.status = "returned"
       /\ ReturnedNonMapping
          => /\ cli.out.sends = <<>>
             /\ cli.out.status = "raised"
             /\ cli.out.exc = "TypeError"

\* a command was interrupted: one report, with error_msg None
C10_Witness ==
    /\ cli.op = "command"
    /\ cli.wrapped.status = "raised"
    /\ cli.wrapped.exc = "KeyboardInterrupt"
    /\ Len(cli.out.sends) = 1
    /\ cli.out.sends[1].error_msg = NoError
    /\ cli.out.exc = "KeyboardInterrupt"

====
